---- MODULE Spec2Model ----
(***************************************************************************)
(* A model of pgshovel's administration core (administration.py):          *)
(* get_managed_databases, setup_database, configure_set, unconfigure_set,  *)
(* create_set, update_set, drop_set and upgrade_cluster, run by concurrent *)
(* callers against one ZooKeeper cluster node tree and a few PostgreSQL    *)
(* databases.                                                              *)
(***************************************************************************)
EXTENDS Integers, Sequences, FiniteSets, TLC

\* ---------------------------------------------------------------- bounds
\* Total number of administration calls started in one behaviour.
MaxOps == 3
\* Largest ZooKeeper data revision a node may reach (writes are guarded).
MaxRev == 2
\* Number of subscribe/unsubscribe commands sent to the Coordinator.
MaxCmds == 2
\* Number of batches the queue hands out.
MaxBatches == 2
\* Number of messages a Publisher emits.
MaxMessages == 6
\* Number of events handed to a stream validator.
MaxEvents == 5

\* ------------------------------------------------------------- universe
Callers == {"a", "b"}
Nodes == {"n1", "n2"}
DSNs == {"d1", "d1b", "d2"}
\* d1 and d1b are two connection strings of the same database.
NodeOf(dsn) == IF dsn = "d2" THEN "n2" ELSE "n1"
SetNames == {"s1", "s2"}
Tables == {"t1", "t2"}
\* __version__ values of the software a caller may be running.
Versions == {1, 2}
\* Values random.randint may return for lock_id.
Tokens == {1, 2}

NoCfg == [databases |-> <<>>, tables |-> {}]
DbLists == {<<"d1">>, <<"d1", "d2">>, <<"d1", "d1">>, <<"d1", "d1b">>}
\* The connection strings psycopg2.connect may fail on.
Unreliable == {"d2"}
TableSets == {{"t1"}, {"t1", "t2"}}
Configs == [databases : DbLists, tables : TableSets]

Range(s) == {s[i] : i \in 1..Len(s)}
\* The orders in which Python may iterate a set or the values of a dict.
Orders(S) == {s \in [1..Cardinality(S) -> S] : \A i, j \in 1..Cardinality(S) : i # j => s[i] # s[j]}

Roles == {"additions", "mutations", "deletions", "upgrade", "result"}
NoCall == [dsns |-> <<>>, configure |-> FALSE, skip |-> FALSE, same |-> FALSE, role |-> "result"]
NoMaps == [r \in Roles |-> {}]

VARIABLES
    root,     \* the cluster node <root>: ClusterConfiguration and its revision
    sets,     \* the children <root>/sets/<name>
    db,       \* committed state of each database
    locks,    \* session advisory locks held: <<node, lock_id, caller, dsn>>
    ops,      \* per caller: the administration call it is executing
    last,     \* the outcome of the call that finished in the last step, if one did
    running,  \* __version__ of the installed software
    partial,  \* history: the sets whose node was written by a call that then
              \* failed to commit all of its Postgres transactions
    nops,     \* number of calls started so far
    lease,    \* holder of the ownership lease of the (consumer group, set) pair
    con,      \* per Consumer thread: its position, flags and hand-off slot
    coord,    \* the Coordinator thread: its position, command queue, consumers
    fut,      \* the futures returned by subscribe_async / unsubscribe_async
    pgq,      \* the queue registration: the open batch, who reserved it
    pub,      \* the Publisher
    stream,   \* the messages the Publisher has written
    val       \* a stream validator, the events it was given and what it yielded

avars == <<root, sets, db, locks, ops, last, running, partial, nops>>
wvars == <<lease, con, coord, fut, pgq>>
pvars == <<pub, stream>>
svars == <<val>>
vars == <<root, sets, db, locks, ops, last, running, partial, nops,
          lease, con, coord, fut, pgq, pub, stream, val>>

\* -------------------------------------------------------------- database
\* get_version: the MD5 of the serialized configuration, one value per
\* distinct serialization.
get_version(configuration) == <<"md5", configuration.databases, configuration.tables>>
NoVersion == <<"md5", <<>>, {}>>
NoTriggers == [t \in Tables |-> NoVersion]
FreshDb == [table |-> FALSE, version |-> 0, node_id |-> 0, fn |-> 0,
            queue |-> {}, trig |-> [s \in SetNames |-> NoTriggers]]

\* Mutant: a new identifier is stored at every call.
set_node_identifier(d) == d.node_id + 1

\* get_or_set_node_identifier: the stored node_id, a new one when none is stored.
get_or_set_node_identifier(d) == IF d.node_id = 0 THEN 1 ELSE d.node_id

\* setup_database, as the state of the database once its transaction commits.
setup_database(d, version) ==
    [d EXCEPT !.table = TRUE,
              !.version = version,
              !.node_id = get_or_set_node_identifier(d),
              !.fn = version]

\* The rows of the configuration table, whose primary key is the key column.
ConfigurationRows(d) == {k \in {"version", "node_id"} : d[k] # 0}

\* setup_triggers: DROP TRIGGER IF EXISTS + CREATE TRIGGER on every table.
setup_triggers(trig, configuration) ==
    [t \in Tables |-> IF t \in configuration.tables THEN get_version(configuration) ELSE trig[t]]

\* drop_trigger raises when the trigger does not exist.
drop_trigger_fails(trig, t) == trig[t] = NoVersion

\* configure_set: the tables whose trigger it drops at the end.
dropped_tables(configuration, previous) == previous.tables \ configuration.tables

configure_set_fails(d, name, configuration, previous) ==
    \E t \in dropped_tables(configuration, previous) :
        drop_trigger_fails(setup_triggers(d.trig[name], configuration), t)

\* Mutant: the triggers of the tables no longer configured are kept.
configure_set_keeps_triggers(d, name, configuration, previous) ==
    [d EXCEPT !.queue = @ \cup {name},
              !.trig[name] = setup_triggers(d.trig[name], configuration)]

configure_set(d, name, configuration, previous) ==
    [d EXCEPT !.queue = @ \cup {name},
              !.trig[name] = [t \in Tables |->
                    IF t \in dropped_tables(configuration, previous)
                    THEN NoVersion
                    ELSE setup_triggers(d.trig[name], configuration)[t]]]

\* unconfigure_set: pgq.drop_queue and DROP TRIGGER both raise on a missing object.
unconfigure_set_fails(d, name, configuration) ==
    \/ name \notin d.queue
    \/ \E t \in configuration.tables : drop_trigger_fails(d.trig[name], t)

\* Mutant: the queue is not dropped.
unconfigure_set_keeps_queue(d, name, configuration) ==
    [d EXCEPT !.trig[name] = [t \in Tables |->
                    IF t \in configuration.tables THEN NoVersion ELSE @[t]]]

unconfigure_set(d, name, configuration) ==
    [d EXCEPT !.queue = @ \ {name},
              !.trig[name] = [t \in Tables |->
                    IF t \in configuration.tables THEN NoVersion ELSE @[t]]]

\* ------------------------------------------------------------ the calls
IdleOp == [pc |-> "idle", kind |-> "none", name |-> "", cfg |-> NoCfg, cur |-> NoCfg,
           stat |-> 0, czxid |-> 0, ver |-> 0, force |-> FALSE, calls |-> <<>>, call |-> NoCall,
           pending |-> <<>>, skipped |-> {}, nodes |-> {}, maps |-> NoMaps, txs |-> <<>>,
           token |-> 0, zrev |-> -1, chk |-> {}, phase |-> "none", stored |-> FALSE,
           committed |-> {}, status |-> "none", err |-> "", leaked |-> {}]

NoOutcome == [kind |-> "none", status |-> "none", err |-> "", leaked |-> {}, ver |-> 0, force |-> FALSE,
              cfg |-> NoCfg, cur |-> NoCfg, name |-> "", stat |-> 0,
              call |-> NoCall, skipped |-> {}, result |-> {}]

\* The call has returned or raised. Transactions still open at that point
\* were never committed or rolled back by the call.
Finished(r, status, err, leaked) ==
    [r EXCEPT !.pc = "done", !.status = status, !.err = err, !.leaked = leaked]

Raise(r, err, leaked) == Finished(r, "failed", err, leaked)

Outcome(o, r) ==
    [kind |-> r.kind, status |-> r.status, err |-> r.err, leaked |-> r.leaked, ver |-> r.ver,
     force |-> r.force, cfg |-> r.cfg, cur |-> r.cur, name |-> r.name, stat |-> r.stat,
     call |-> r.call, skipped |-> r.skipped, result |-> r.maps["result"]]

\* The connections of a finished call go out of scope, which ends their sessions.
ReleaseSessions(o) == {l \in locks : l[3] # o}

\* Caller o moves to r, taking the advisory locks lk if the call goes on.
Step(o, r, lk) ==
    IF r.pc = "done"
    THEN /\ ops' = [ops EXCEPT ![o] = IdleOp]
         /\ last' = Outcome(o, r)
         /\ locks' = ReleaseSessions(o)
    ELSE /\ ops' = [ops EXCEPT ![o] = r]
         /\ locks' = lk
         /\ last' = NoOutcome

CanBegin(o) == ops[o].pc = "idle" /\ nops < MaxOps

\* -------------------------------------------------- get_managed_databases
\* check_version fails unless the version stored at <root> is the running one.
check_version_fails(version) == root.version # version

\* Every transaction of the list is open until the commit phase.
OpenTxs(r) == Range(r.txs)

\* The head of get_managed_databases for the caller's next call of it, or
\* the caller's code after its last call.
RECURSIVE EnterCall(_)
EnterCall(r) ==
    IF r.calls = <<>>
    THEN IF r.kind = "get_managed_databases"
         THEN Finished(r, "ok", "", {})
         ELSE [r EXCEPT !.pc = "apply"]
    ELSE LET c == Head(r.calls)
             q == [r EXCEPT !.calls = Tail(r.calls), !.call = c]
         IN IF c.dsns = <<>>
            THEN EnterCall([q EXCEPT !.maps[c.role] = {}])
            ELSE IF c.same /\ check_version_fails(r.ver)
            THEN Raise(q, "version_mismatch", {})
            ELSE [q EXCEPT !.pc = "probe", !.pending = c.dsns, !.skipped = {}, !.nodes = {}, !.txs = <<>>,
                           !.token = 0, !.phase = "gmd",
                           !.zrev = IF c.same THEN root.rev ELSE -1]

\* get_managed_databases returns its nodes to the caller.
Returned(r) ==
    EnterCall([r EXCEPT !.maps[r.call.role] = r.nodes, !.nodes = {}, !.txs = <<>>,
                        !.pending = <<>>, !.token = 0, !.zrev = -1, !.phase = "none"])

\* Mutant: the setup transactions are left to the caller.
NextDsnWithoutCommit(r) ==
    LET q == [r EXCEPT !.pending = Tail(r.pending), !.pc = "probe"]
    IN IF q.pending # <<>> THEN q ELSE Returned(q)

\* The end of one iteration of the loop over dsns.
NextDsn(r) ==
    LET q == [r EXCEPT !.pending = Tail(r.pending), !.pc = "probe"]
    IN IF q.pending # <<>> THEN q
       ELSE IF q.txs # <<>> THEN [q EXCEPT !.pc = "store_commit"]
       ELSE Returned(q)

\* Mutant: no assert, the later connection replaces the earlier one.
AddNodeOverwriting(r, dsn) ==
    NextDsn([r EXCEPT !.nodes = {p \in @ : p[1] # NodeOf(dsn)} \cup {<<NodeOf(dsn), dsn>>}])

\* The assert on nodes, then nodes[node_id] = connection.
AddNode(r, dsn) ==
    IF \E p \in r.nodes : p[1] = NodeOf(dsn)
    THEN Raise(r, "duplicate_node", OpenTxs(r))
    ELSE NextDsn([r EXCEPT !.nodes = @ \cup {<<NodeOf(dsn), dsn>>}])

\* The version assert of the already-configured branch.
VersionAccepted(r, stored) == stored = r.ver

\* Mutant: the result of pg_try_advisory_lock is not looked at.
LockNeverRefused(n, lock_id) == FALSE

\* pg_try_advisory_lock: refused when another session holds the lock.
LockRefused(n, lock_id) == \E l \in locks : l[1] = n /\ l[2] = lock_id

\* Mutant: a connection that fails is always skipped.
skips_always(r) == TRUE

\* The skip_inaccessible argument of the call in progress.
skips_inaccessible(r) == r.call.skip

\* Mutant: a lock_id drawn anew for every dsn.
LockIdsPerDsn(r) == Tokens

\* lock_id is drawn once, before the loop over dsns.
LockIds(r) == IF r.token = 0 THEN Tokens ELSE {r.token}

\* One iteration of the loop over dsns, up to the call of setup_database.
Probe(o) ==
    LET r == ops[o]
        dsn == Head(r.pending)
        n == NodeOf(dsn)
    IN
    /\ r.pc = "probe"
    /\ UNCHANGED <<root, sets, db, running, partial, nops>>
    /\ \E connects \in (IF dsn \in Unreliable THEN BOOLEAN ELSE {TRUE}) :
        IF ~connects
        THEN IF skips_inaccessible(r)
             THEN Step(o, NextDsn([r EXCEPT !.skipped = @ \cup {dsn}]), locks)
             ELSE Step(o, Raise(r, "connection_failed", OpenTxs(r)), locks)
        ELSE IF ~db[n].table
        THEN IF ~r.call.configure
             THEN Step(o, Raise(r, "not_configured", OpenTxs(r) \cup {<<"probe", dsn>>}), locks)
             ELSE \E lock_id \in LockIds(r) :
                    LET q == [r EXCEPT !.txs = Append(@, <<"setup", dsn>>), !.token = lock_id]
                    IN IF LockRefused(n, lock_id)
                       THEN Step(o, Raise(q, "possible_deadlock", OpenTxs(q)), locks)
                       ELSE Step(o, [q EXCEPT !.pc = "setup"], locks \cup {<<n, lock_id, o, dsn>>})
        ELSE IF db[n].node_id = 0
        THEN Step(o, Raise(r, "no_node_id", OpenTxs(r) \cup {<<"probe", dsn>>}), locks)
        ELSE IF ~VersionAccepted(r, db[n].version)
        THEN Step(o, Raise(r, "version_mismatch", OpenTxs(r) \cup {<<"probe", dsn>>}), locks)
        ELSE Step(o, AddNode(r, dsn), locks)

\* Another caller's uncommitted setup of the same database makes the
\* statements of setup_database wait.
SetupBlocked(o) ==
    \E p \in Callers \ {o} : \E t \in Range(ops[p].txs) :
        t[1] = "setup" /\ NodeOf(t[2]) = NodeOf(Head(ops[o].pending))

\* The call of setup_database inside the setup transaction, to the end of
\* the iteration.
Setup(o) ==
    LET r == ops[o]
        dsn == Head(r.pending)
    IN
    /\ r.pc = "setup"
    /\ ~SetupBlocked(o)
    /\ UNCHANGED <<root, sets, db, running, partial, nops>>
    /\ \E raises \in BOOLEAN :
        Step(o, IF raises THEN Raise(r, "db_error", OpenTxs(r)) ELSE AddNode(r, dsn), locks)

\* ------------------------------------------------------ entry points
\* Mutant: no check for duplicate databases.
validate_without_duplicates(configuration) ==
    IF Len(configuration.databases) = 0 THEN "no_databases" ELSE ""

validate_set_configuration(configuration) ==
    IF Len(configuration.databases) = 0 THEN "no_databases"
    ELSE IF \E i, j \in 1..Len(configuration.databases) :
                i < j /\ configuration.databases[i] = configuration.databases[j]
         THEN "duplicate_databases"
         ELSE ""

Started(kind, name, configuration, calls) ==
    [IdleOp EXCEPT !.pc = "enter", !.kind = kind, !.name = name, !.cfg = configuration,
                   !.ver = running, !.calls = calls, !.status = "running"]

Call(dsns, configure, skip, same, role) ==
    [dsns |-> dsns, configure |-> configure, skip |-> skip, same |-> same, role |-> role]

\* create_set up to its first iteration over the databases.
CreateSet(o, name, configuration) ==
    /\ CanBegin(o)
    /\ nops' = nops + 1
    /\ UNCHANGED <<root, sets, db, running, partial>>
    /\ LET e == validate_set_configuration(configuration)
           r == Started("create_set", name, configuration,
                        <<Call(configuration.databases, TRUE, FALSE, TRUE, "additions")>>)
       IN Step(o, IF e # "" THEN Raise(r, e, {}) ELSE EnterCall(r), locks)

\* update_set up to its first iteration over the databases.
UpdateSet(o, name, updated, allow_forced_removal) ==
    /\ CanBegin(o)
    /\ sets[name].rev < MaxRev
    /\ nops' = nops + 1
    /\ UNCHANGED <<root, sets, db, running, partial>>
    /\ LET e == validate_set_configuration(updated)
           current == sets[name].cfg
           current_databases == Range(current.databases)
           updated_databases == Range(updated.databases)
           r0 == Started("update_set", name, updated, <<>>)
       IN IF e # "" THEN Step(o, Raise(r0, e, {}), locks)
          ELSE IF ~sets[name].exists THEN Step(o, Raise(r0, "no_node", {}), locks)
          ELSE \E a \in Orders(updated_databases \ current_databases),
                  m \in Orders(updated_databases \cap current_databases),
                  d \in Orders(current_databases \ updated_databases) :
                 Step(o, EnterCall([r0 EXCEPT !.cur = current, !.stat = sets[name].rev,
                                              !.czxid = sets[name].czxid,
                                              !.calls = <<Call(a, TRUE, FALSE, TRUE, "additions"),
                                                          Call(m, TRUE, FALSE, TRUE, "mutations"),
                                                          Call(d, TRUE, allow_forced_removal, TRUE, "deletions")>>]),
                      locks)

\* drop_set up to its first iteration over the databases.
DropSet(o, name, allow_forced_removal) ==
    /\ CanBegin(o)
    /\ nops' = nops + 1
    /\ UNCHANGED <<root, sets, db, running, partial>>
    /\ LET r0 == Started("drop_set", name, NoCfg, <<>>)
       IN IF ~sets[name].exists THEN Step(o, Raise(r0, "no_node", {}), locks)
          ELSE Step(o, EnterCall([r0 EXCEPT !.cur = sets[name].cfg, !.stat = sets[name].rev,
                                            !.czxid = sets[name].czxid,
                                            !.calls = <<Call(sets[name].cfg.databases, FALSE,
                                                             allow_forced_removal, TRUE, "deletions")>>]),
                    locks)

\* Mutant: the version stored at the root may equal the running one.
MayUpgradeToSame(force) == running >= root.version \/ force

\* The assert of upgrade_cluster on the running and the stored version;
\* parse_version orders releases, which the model numbers in that order.
MayUpgrade(force) == running > root.version \/ force

\* upgrade_cluster up to its first iteration over the databases.
UpgradeCluster(o, force) ==
    /\ CanBegin(o)
    /\ root.rev < MaxRev
    /\ nops' = nops + 1
    /\ UNCHANGED <<root, sets, db, running, partial>>
    /\ LET existing == {s \in SetNames : sets[s].exists}
           databases == UNION {Range(sets[s].cfg.databases) : s \in existing}
           r0 == [Started("upgrade_cluster", "", NoCfg, <<>>)
                  EXCEPT !.stat = root.rev, !.force = force,
                         !.chk = {<<s, sets[s].rev>> : s \in existing}]
       IN IF ~MayUpgrade(force) THEN Step(o, Raise(r0, "cannot_downgrade", {}), locks)
          ELSE \E dsns \in Orders(databases) :
                 Step(o, EnterCall([r0 EXCEPT !.calls = <<Call(dsns, FALSE, FALSE, FALSE, "upgrade")>>]), locks)

\* A direct call of get_managed_databases, up to its first iteration.
GetManagedDatabases(o, dsns, configure, skip_inaccessible, same_version) ==
    /\ CanBegin(o)
    /\ nops' = nops + 1
    /\ UNCHANGED <<root, sets, db, running, partial>>
    /\ Step(o, EnterCall(Started("get_managed_databases", "", NoCfg,
                                 <<Call(dsns, configure, skip_inaccessible, same_version, "result")>>)),
            locks)

\* Another release of the software is installed.
Install(version) ==
    /\ version > running
    /\ running' = version
    /\ last' = NoOutcome
    /\ UNCHANGED <<root, sets, db, locks, ops, partial, nops>>

\* ------------------------------------------------ applying and committing
\* The transactions a caller opens, one per connection of a map.
TxsOf(r, role) == {<<role, p[2]>> : p \in r.maps[role]}

Concat4(a, b, c, d) == a \o b \o c \o d

\* The loops over additions, mutations and deletions (create_set, drop_set
\* and upgrade_cluster have one loop), each in the order of a dict's values.
WorkOrders(r) ==
    {Concat4(a, m, d, u) : a \in Orders(TxsOf(r, "additions")), m \in Orders(TxsOf(r, "mutations")),
                           d \in Orders(TxsOf(r, "deletions")), u \in Orders(TxsOf(r, "upgrade"))}

\* A statement of the transaction raises because of the database's state.
WorkFails(r, t) ==
    LET d == db[NodeOf(t[2])] IN
    CASE t[1] = "additions" -> configure_set_fails(d, r.name, r.cfg, NoCfg)
      [] t[1] = "mutations" -> configure_set_fails(d, r.name, r.cfg, r.cur)
      [] t[1] = "deletions" -> unconfigure_set_fails(d, r.name, r.cur)
      [] OTHER -> FALSE

\* What a transaction leaves in its database when it commits.
Effect(r, t, d) ==
    CASE t[1] = "additions" -> configure_set(d, r.name, r.cfg, NoCfg)
      [] t[1] = "mutations" -> configure_set(d, r.name, r.cfg, r.cur)
      [] t[1] = "deletions" -> unconfigure_set(d, r.name, r.cur)
      [] OTHER -> setup_database(d, r.ver)

\* Mutant: the occurrences are not counted.
DuplicatesIgnored(r) == {}

\* update_set's check of occurrences: a node found in more than one map.
Duplicates(r) ==
    {n \in Nodes : Cardinality({role \in {"additions", "mutations", "deletions"} :
                                    \E p \in r.maps[role] : p[1] = n}) > 1}

\* The transactions left open when a statement raises outside "with managed".
OpenOnRaise(w, i) == {w[j] : j \in 1..i}

\* Mutant: the Postgres transactions are committed without the body.
PostgresFirst == "pg_commit"

\* "with managed(transactions): commit(ztransaction)": the scope is entered
\* with the transactions open and its body runs first.
ManagedScope == "store_commit"

\* The caller's code between get_managed_databases and "with managed(...)".
Apply(o) ==
    LET r == ops[o] IN
    /\ r.pc = "apply"
    /\ UNCHANGED <<root, sets, db, running, partial, nops>>
    /\ IF r.kind = "update_set" /\ Duplicates(r) # {}
       THEN Step(o, Raise(r, "found_duplicates", {}), locks)
       ELSE IF r.kind # "upgrade_cluster" /\ check_version_fails(r.ver)
       THEN Step(o, Raise(r, "version_mismatch", {}), locks)
       ELSE \E w \in WorkOrders(r) : \E i \in 0..Len(w) :
              /\ \A j \in 1..Len(w) : (i = 0 \/ j < i) => ~WorkFails(r, w[j])
              /\ IF i = 0
                 THEN Step(o, [r EXCEPT !.pc = ManagedScope, !.phase = "op", !.txs = w,
                                        !.zrev = IF r.kind = "upgrade_cluster" THEN -1 ELSE root.rev],
                           locks)
                 ELSE Step(o, Raise(r, "db_error", OpenOnRaise(w, i)), locks)

\* Mutant: the writes carry no version.
StoreChecksWithoutRevision(r) ==
    /\ r.zrev = -1 \/ root.rev = r.zrev
    /\ r.phase = "op" =>
        CASE r.kind = "create_set" -> ~sets[r.name].exists
          [] r.kind \in {"update_set", "drop_set"} -> sets[r.name].exists
          [] r.kind = "upgrade_cluster" -> root.rev = r.stat
          [] OTHER -> TRUE

\* The checks of the ZooKeeper transaction a caller commits.
StoreChecks(r) ==
    /\ r.zrev = -1 \/ root.rev = r.zrev
    /\ r.phase = "op" =>
        CASE r.kind = "create_set" -> ~sets[r.name].exists
          [] r.kind \in {"update_set", "drop_set"} -> sets[r.name].exists /\ sets[r.name].rev = r.stat
          [] r.kind = "upgrade_cluster" ->
                /\ root.rev = r.stat
                /\ \A c \in r.chk : sets[c[1]].exists /\ sets[c[1]].rev = c[2]
          [] OTHER -> TRUE

\* The writes of that transaction.  A node that is created starts at
\* revision 0 whatever was at its path before; czxid tells its creations
\* apart (the store keeps it in the node's stat, the calls never read it).
StoreWrites(r) ==
    CASE r.phase = "op" /\ r.kind = "create_set" ->
            [sets EXCEPT ![r.name] = [exists |-> TRUE, cfg |-> r.cfg, rev |-> 0,
                                      czxid |-> @.czxid + 1]]
      [] r.phase = "op" /\ r.kind = "update_set" ->
            [sets EXCEPT ![r.name] = [exists |-> TRUE, cfg |-> r.cfg, rev |-> @.rev + 1,
                                      czxid |-> @.czxid]]
      [] r.phase = "op" /\ r.kind = "drop_set" ->
            [sets EXCEPT ![r.name] = [exists |-> FALSE, cfg |-> NoCfg, rev |-> 0,
                                      czxid |-> @.czxid]]
      [] OTHER -> sets

RootWrites(r) ==
    IF r.phase = "op" /\ r.kind = "upgrade_cluster"
    THEN [version |-> r.ver, rev |-> root.rev + 1]
    ELSE root

\* managed(transactions): what is left open when its body raises.
managed_on_error(r) == {}

\* "with managed(transactions): commit(ztransaction)": the body.
StoreCommit(o) ==
    LET r == ops[o] IN
    /\ r.pc = "store_commit"
    /\ UNCHANGED <<db, running, partial, nops>>
    /\ IF StoreChecks(r)
       THEN /\ sets' = StoreWrites(r)
            /\ root' = RootWrites(r)
            /\ Step(o, [r EXCEPT !.pc = "pg_commit", !.stored = (r.phase = "op")], locks)
       ELSE /\ Step(o, Raise(r, "store_conflict", managed_on_error(r)), locks)
            /\ UNCHANGED <<root, sets>>

\* The database after the first k transactions of the list committed.
Committed(r, k, n) ==
    IF \E j \in 1..k : NodeOf(r.txs[j][2]) = n
    THEN Effect(r, r.txs[CHOOSE j \in 1..k : NodeOf(r.txs[j][2]) = n], db[n])
    ELSE db[n]

\* "with managed(transactions): ...": the exit of the scope after the body
\* returned. The transactions commit in order; when a commit fails the rest
\* is rolled back.
PgCommit(o) ==
    LET r == ops[o] IN
    /\ r.pc = "pg_commit"
    /\ UNCHANGED <<root, sets, running, nops>>
    /\ \E k \in 0..Len(r.txs) :
        /\ db' = [n \in Nodes |-> Committed(r, k, n)]
        /\ partial' = IF k < Len(r.txs) /\ r.stored /\ r.name \in SetNames
                      THEN partial \cup {r.name} ELSE partial
        /\ LET q == [r EXCEPT !.committed = {r.txs[j] : j \in 1..k}]
           IN IF k < Len(r.txs)
              THEN Step(o, Raise(q, "commit_failed", {}), locks)
              ELSE IF r.phase = "gmd"
              THEN Step(o, Returned(r), locks)
              ELSE Step(o, Finished(q, "ok", "", {}), locks)

\* ================================================== consumer and coordinator
\* One Coordinator and the Consumer it supervises for one capture group (c1),
\* and the Consumer of another process for the same capture group and
\* consumer group (c2), whose coordinator is seen only through its requests.
Consumers == {"c1", "c2"}
Supervised == "c1"
Rival == "c2"
Futures == 1..MaxCmds

\* Consumer.__init__: ready, batches = Queue(1), __stop_requested; held is
\* _ownership_lock.is_acquired, batch the batch_id of the iteration.
FreshConsumer == [pc |-> "new", stop |-> FALSE, ready |-> FALSE, held |-> FALSE,
                  slot |-> 0, batch |-> 0, configuration |-> "none"]

\* The set configurations a subscribe command may carry.
Configurations == {"v1", "v2"}

NoCmd == [op |-> "none", f |-> 0, configuration |-> "none"]

\* Coordinator.__init__, started.
FreshCoordinator == [pc |-> "loop", stop |-> FALSE, queue |-> <<>>, consumers |-> {},
                     cmd |-> NoCmd, deferred |-> FALSE, before |-> FALSE,
                     taken |-> 0, err |-> FALSE]

\* Runnable.running() is false: the thread has ended.
Ended(r) == r.pc \in {"stopped", "failed"}

\* The deferred release() of Consumer.run: the lease is given up if held.
Released(c) == IF lease = c THEN "none" ELSE lease

\* self.database(): the connection the Coordinator and its Consumers share.
\* The accessor hands it to the thread that asks; the threads are kept apart
\* by the hand-off slot alone.
database(thread) == TRUE

\* The consumer is past the acquisition of the lease: registering or in its
\* main loop.
PastAcquisition(c) == con[c].pc \in {"register", "loop", "next_batch", "put"}

\* Consumer.start().
ConsumerStart(c) ==
    /\ c = Rival
    /\ con[c].pc = "new"
    /\ con' = [con EXCEPT ![c].pc = "acquire"]
    /\ UNCHANGED <<lease, coord, fut, pgq>>

\* _ownership_lock.acquire() returns: it waits until the lease is free.
ConsumerAcquire(c) ==
    /\ con[c].pc = "acquire"
    /\ lease = "none"
    /\ lease' = c
    /\ con' = [con EXCEPT ![c].pc = "register", ![c].held = TRUE]
    /\ UNCHANGED <<coord, fut, pgq>>

\* _ownership_lock.acquire() raises (the coordination store is unreachable).
ConsumerAcquireFails(c) ==
    /\ con[c].pc = "acquire"
    /\ con' = [con EXCEPT ![c].pc = "failed"]
    /\ UNCHANGED <<lease, coord, fut, pgq>>

\* pgq.register_consumer and ready.set(); an exception runs release().
ConsumerRegister(c) ==
    /\ con[c].pc = "register"
    /\ UNCHANGED <<coord, fut, pgq>>
    /\ \/ /\ con' = [con EXCEPT ![c].pc = "loop", ![c].ready = TRUE]
          /\ UNCHANGED lease
       \/ /\ con' = [con EXCEPT ![c].pc = "failed", ![c].held = FALSE]
          /\ lease' = Released(c)

\* Mutant: the batch is fetched whether or not the slot has room.
ConsumerTickWithoutSlot(c) ==
    /\ con[c].pc = "loop"
    /\ UNCHANGED <<coord, fut, pgq>>
    /\ IF con[c].stop
       THEN /\ con' = [con EXCEPT ![c].pc = "stopped", ![c].held = FALSE]
            /\ lease' = Released(c)
       ELSE IF ~con[c].held
       THEN /\ con' = [con EXCEPT ![c].pc = "failed"]
            /\ lease' = Released(c)
       ELSE /\ con' = [con EXCEPT ![c].pc = "next_batch"]
            /\ UNCHANGED lease

\* The head of one iteration of the main loop: the stop flag, is_acquired,
\* batches.full().
ConsumerTick(c) ==
    /\ con[c].pc = "loop"
    /\ UNCHANGED <<coord, fut, pgq>>
    /\ IF con[c].stop
       THEN /\ con' = [con EXCEPT ![c].pc = "stopped", ![c].held = FALSE]
            /\ lease' = Released(c)
       ELSE IF ~con[c].held
       THEN /\ con' = [con EXCEPT ![c].pc = "failed"]
            /\ lease' = Released(c)
       ELSE /\ con[c].slot = 0
            /\ con' = [con EXCEPT ![c].pc = "next_batch"]
            /\ UNCHANGED lease

\* pgq.next_batch_info: the batch that is open for the registered consumer,
\* else the next batch of the queue, else None.
ConsumerNextBatch(c) ==
    /\ con[c].pc = "next_batch"
    /\ database(c)
    /\ UNCHANGED <<lease, coord, fut>>
    /\ IF pgq.open # 0
       THEN /\ con' = [con EXCEPT ![c].pc = "put", ![c].batch = pgq.open]
            /\ UNCHANGED pgq
       ELSE IF pgq.made < MaxBatches
       THEN /\ con' = [con EXCEPT ![c].pc = "put", ![c].batch = pgq.made + 1]
            /\ pgq' = [open |-> pgq.made + 1, by |-> c, made |-> pgq.made + 1]
       ELSE /\ con' = [con EXCEPT ![c].pc = "loop"]
            /\ UNCHANGED pgq

\* Mutant: after the put the next batch is fetched without a look at the queue.
ConsumerPutThenFetch(c) ==
    /\ con[c].pc = "put"
    /\ con' = [con EXCEPT ![c].pc = "next_batch", ![c].slot = con[c].batch, ![c].batch = 0]
    /\ UNCHANGED <<lease, coord, fut, pgq>>

\* get_batch_events, batches.put((events, finish)), commit.
ConsumerPut(c) ==
    /\ con[c].pc = "put"
    /\ con' = [con EXCEPT ![c].pc = "loop", ![c].slot = con[c].batch, ![c].batch = 0]
    /\ UNCHANGED <<lease, coord, fut, pgq>>

\* The coordination store drops the lease of its holder (session lost).
LeaseLost(c) ==
    /\ lease = c
    /\ lease' = "none"
    /\ con' = [con EXCEPT ![c].held = FALSE]
    /\ UNCHANGED <<coord, fut, pgq>>

\* Consumer.stop_async() on the consumer of the other process.
RivalStop ==
    /\ con[Rival].pc # "new" /\ ~con[Rival].stop
    /\ con' = [con EXCEPT ![Rival].stop = TRUE]
    /\ UNCHANGED <<lease, coord, fut, pgq>>

\* The other process's coordinator takes the batch and finishes it.
RivalTake ==
    /\ con[Rival].slot # 0 /\ ~Ended(con[Rival])
    /\ con' = [con EXCEPT ![Rival].slot = 0]
    /\ pgq' = IF pgq.open = con[Rival].slot THEN [pgq EXCEPT !.open = 0, !.by = ""] ELSE pgq
    /\ UNCHANGED <<lease, coord, fut>>

\* subscribe_async / unsubscribe_async: a Future and a command in the queue.
Request(op) ==
    /\ \E f \in Futures, configuration \in (IF op = "subscribe" THEN Configurations ELSE {"none"}) :
        /\ fut[f] = "none" /\ \A g \in Futures : g < f => fut[g] # "none"
        /\ fut' = [fut EXCEPT ![f] = "pending"]
        /\ coord' = [coord EXCEPT !.queue = Append(@, [op |-> op, f |-> f,
                                                       configuration |-> configuration])]
    /\ UNCHANGED <<lease, con, pgq>>

\* Coordinator.stop_async().
CoordinatorStop ==
    /\ ~coord.stop
    /\ coord' = [coord EXCEPT !.stop = TRUE]
    /\ UNCHANGED <<lease, con, fut, pgq>>

\* The head of the Coordinator's loop: the stop flag.
CoordinatorTick ==
    /\ coord.pc = "loop"
    /\ coord' = [coord EXCEPT !.pc = IF coord.stop THEN "exit" ELSE "drain"]
    /\ UNCHANGED <<lease, con, fut, pgq>>

\* subscribe for a name without a consumer: Consumer(...), consumer.start().
Subscribed(configuration) ==
    [FreshConsumer EXCEPT !.pc = "acquire", !.configuration = configuration]

\* Mutant: the consumer of the name is replaced by a new one.
Replaced(consumer, configuration) == Subscribed(configuration)

\* subscribe for a name that has a consumer: consumer.configuration = configuration.
Resubscribed(consumer, configuration) == [consumer EXCEPT !.configuration = configuration]

\* One command of the control queue, up to the point where it waits.
CoordinatorDrain ==
    /\ coord.pc = "drain"
    /\ UNCHANGED <<lease, pgq>>
    /\ IF coord.queue = <<>>
       THEN /\ coord' = [coord EXCEPT !.pc = "supervise"]
            /\ UNCHANGED <<con, fut>>
       ELSE LET c == Head(coord.queue)
                k == [coord EXCEPT !.queue = Tail(coord.queue)]
            IN CASE c.op = "subscribe" /\ Supervised \in coord.consumers ->
                        /\ coord' = k
                        /\ fut' = [fut EXCEPT ![c.f] = "done"]
                        /\ con' = [con EXCEPT ![Supervised] = Resubscribed(@, c.configuration)]
                 [] c.op = "subscribe" /\ Supervised \notin coord.consumers ->
                        /\ coord' = [k EXCEPT !.pc = "wait_ready", !.cmd = c,
                                              !.consumers = {Supervised},
                                              !.before = @ \/ con[Supervised].pc = "failed"]
                        /\ con' = [con EXCEPT ![Supervised] = Subscribed(c.configuration)]
                        /\ UNCHANGED fut
                 [] c.op = "unsubscribe" /\ Supervised \in coord.consumers ->
                        /\ coord' = [k EXCEPT !.pc = "join", !.cmd = c, !.consumers = {}]
                        /\ con' = [con EXCEPT ![Supervised].stop = TRUE]
                        /\ UNCHANGED fut
                 [] OTHER ->
                        /\ coord' = k
                        /\ fut' = [fut EXCEPT ![c.f] = "failed"]
                        /\ UNCHANGED con

\* subscribe: consumer.ready.wait() returns, check_stop is deferred.
CoordinatorReady ==
    /\ coord.pc = "wait_ready"
    /\ con[Supervised].ready
    /\ coord' = [coord EXCEPT !.pc = "drain", !.cmd = NoCmd, !.deferred = TRUE]
    /\ fut' = [fut EXCEPT ![coord.cmd.f] = "done"]
    /\ UNCHANGED <<lease, con, pgq>>

\* unsubscribe: consumer.stop() returns when the consumer has ended.
CoordinatorJoin ==
    /\ coord.pc = "join"
    /\ Ended(con[Supervised])
    /\ coord' = [coord EXCEPT !.pc = "drain", !.cmd = NoCmd]
    /\ fut' = [fut EXCEPT ![coord.cmd.f] = "done"]
    /\ UNCHANGED <<lease, con, pgq>>

\* The loop over the consumers: a dead consumer, else batches.get(False).
CoordinatorSupervise ==
    /\ coord.pc = "supervise"
    /\ database("coordinator")
    /\ UNCHANGED <<lease, fut, pgq>>
    /\ IF Supervised \notin coord.consumers
       THEN coord' = [coord EXCEPT !.pc = "loop"] /\ UNCHANGED con
       ELSE IF Ended(con[Supervised])
       THEN coord' = [coord EXCEPT !.pc = "exit", !.err = TRUE] /\ UNCHANGED con
       ELSE IF con[Supervised].slot = 0
       THEN coord' = [coord EXCEPT !.pc = "loop"] /\ UNCHANGED con
       ELSE /\ coord' = [coord EXCEPT !.pc = "finish", !.taken = con[Supervised].slot]
            /\ con' = [con EXCEPT ![Supervised].slot = 0]

\* finish(connection): pgq.finish_batch, 'Could not close batch!' otherwise.
CoordinatorFinish ==
    /\ coord.pc = "finish"
    /\ UNCHANGED <<lease, con, fut>>
    /\ IF pgq.open = coord.taken
       THEN /\ pgq' = [pgq EXCEPT !.open = 0, !.by = ""]
            /\ coord' = [coord EXCEPT !.pc = "loop", !.taken = 0]
       ELSE /\ coord' = [coord EXCEPT !.pc = "exit", !.taken = 0, !.err = TRUE]
            /\ UNCHANGED pgq

\* The end of run: the deferred check_stop(consumer) stops the consumer.
CoordinatorExit ==
    /\ coord.pc = "exit"
    /\ UNCHANGED <<lease, fut, pgq>>
    /\ IF coord.deferred
       THEN /\ coord' = [coord EXCEPT !.pc = "exit_join"]
            /\ con' = [con EXCEPT ![Supervised].stop = TRUE]
       ELSE /\ coord' = [coord EXCEPT !.pc = IF coord.err THEN "failed" ELSE "stopped"]
            /\ UNCHANGED con

\* check_stop: consumer.result() once the consumer has ended.
CoordinatorExitJoin ==
    /\ coord.pc = "exit_join"
    /\ Ended(con[Supervised])
    /\ coord' = [coord EXCEPT !.pc = IF coord.err \/ coord.before \/ con[Supervised].pc = "failed"
                                     THEN "failed" ELSE "stopped"]
    /\ UNCHANGED <<lease, con, fut, pgq>>

ConsumerStep(c) ==
    \/ ConsumerAcquire(c)
    \/ ConsumerRegister(c)
    \/ ConsumerTick(c)
    \/ ConsumerNextBatch(c)
    \/ ConsumerPut(c)

CoordinatorStep ==
    \/ CoordinatorTick
    \/ CoordinatorDrain
    \/ CoordinatorReady
    \/ CoordinatorJoin
    \/ CoordinatorSupervise
    \/ CoordinatorFinish
    \/ CoordinatorExit
    \/ CoordinatorExitJoin

\* The threads and their callers.
NextWorker ==
    \/ /\ ConsumerStart(Rival)
       /\ UNCHANGED <<avars, pvars, svars>>
    \/ /\ \E c \in Consumers : ConsumerStep(c)
       /\ UNCHANGED <<avars, pvars, svars>>
    \/ /\ \E c \in Consumers : ConsumerAcquireFails(c)
       /\ UNCHANGED <<avars, pvars, svars>>
    \/ /\ \E c \in Consumers : LeaseLost(c)
       /\ UNCHANGED <<avars, pvars, svars>>
    \/ /\ RivalStop
       /\ UNCHANGED <<avars, pvars, svars>>
    \/ /\ RivalTake
       /\ UNCHANGED <<avars, pvars, svars>>
    \/ /\ \E op \in {"subscribe", "unsubscribe"} : Request(op)
       /\ UNCHANGED <<avars, pvars, svars>>
    \/ /\ CoordinatorStop
       /\ UNCHANGED <<avars, pvars, svars>>
    \/ /\ CoordinatorStep
       /\ UNCHANGED <<avars, pvars, svars>>


\* ================================================================ publisher
\* One Publisher instance writing to a list of messages, as in the tests of
\* the publisher; and the two validators its output is handed to.
FreshPublisher(id) == [id |-> id, sequence |-> 0, batch |-> 0, done |-> 0,
                       exit |-> "none", propagated |-> FALSE]

Message(p, op, b) == [publisher |-> p.id, sequence |-> p.sequence, op |-> op, batch |-> b,
                      node |-> "n1", payload |-> ""]

\* Mutant: the sequence starts again after a failed batch.
SequenceAfterReset(p, op) == IF op = "rollback" THEN 0 ELSE p.sequence + 1

\* The sequence number of the next message.
SequenceAfter(p, op) == p.sequence + 1

\* Mutant: a failed batch is closed like any other.
TerminalAlwaysCommit(raises) == "commit"

\* The terminal operation of the scope.
Terminal(raises) == IF raises THEN "rollback" ELSE "commit"

\* Publisher.publish: one message to the output.
Emit(op, b) ==
    /\ Len(stream) < MaxMessages
    /\ stream' = Append(stream, Message(pub, op, b))

\* The batch ids a relay opens next: the batch after a committed one, the
\* same batch again after a rolled back one.
NextBatches == IF pub.exit = "exception" THEN {pub.done} ELSE {pub.done + 1}

\* "with publisher.batch(batch_identifier, begin) as publish": entry.
BatchEnter(b) ==
    /\ pub.batch = 0
    /\ Emit("begin", b)
    /\ pub' = [pub EXCEPT !.sequence = SequenceAfter(pub, "begin"), !.batch = b]

\* publish(mutation) inside the scope.
BatchPublish ==
    /\ pub.batch # 0
    /\ Emit("mutation", pub.batch)
    /\ pub' = [pub EXCEPT !.sequence = SequenceAfter(pub, "mutation")]

\* The exit of the scope, normally or by an exception of the body.
BatchExit(raises) ==
    /\ pub.batch # 0
    /\ Emit(Terminal(raises), pub.batch)
    /\ pub' = [pub EXCEPT !.sequence = SequenceAfter(pub, Terminal(raises)),
                          !.batch = 0, !.done = pub.batch,
                          !.exit = IF raises THEN "exception" ELSE "normal",
                          !.propagated = raises]

\* publisher.publish() outside a scope.
PublishBare ==
    /\ pub.batch = 0
    /\ Emit("none", 0)
    /\ pub' = [pub EXCEPT !.sequence = SequenceAfter(pub, "none")]

NextPublisher ==
    \/ /\ \E b \in NextBatches : BatchEnter(b)
       /\ UNCHANGED <<avars, wvars, svars>>
    \/ /\ BatchPublish
       /\ UNCHANGED <<avars, wvars, svars>>
    \/ /\ \E raises \in BOOLEAN : BatchExit(raises)
       /\ UNCHANGED <<avars, wvars, svars>>
    \/ /\ PublishBare
       /\ UNCHANGED <<avars, wvars, svars>>

\* validate_consumer_state: per publisher the sequence starts at 0 and grows
\* by one.
validate_consumer_state(messages) ==
    \A i \in 1..Len(messages) :
        LET prior == {j \in 1..(i - 1) : messages[j].publisher = messages[i].publisher}
        IN messages[i].sequence =
             IF prior = {} THEN 0
             ELSE messages[CHOOSE j \in prior : \A k \in prior : k <= j].sequence + 1

\* ========================================================= stream validators
\* The states of the transaction validator, and the failure of a validator.
NoTransaction == [state |-> "NoTransaction", publisher |-> "", batch |-> 0, node |-> ""]
Invalid == [state |-> "Invalid", publisher |-> "", batch |-> 0, node |-> ""]

\* The guards of the transaction validator.
require_same_batch(s, m) == m.batch = s.batch /\ m.node = s.node

require_same_publisher(s, m) == m.publisher = s.publisher

require_different_publisher(s, m) == m.publisher # s.publisher

\* Mutant: a batch id that was used before is taken again.
require_batch_id_any(s, m) == TRUE

require_batch_id_advanced_if_same_node(s, m) == m.node # s.node \/ m.batch > s.batch

require_batch_id_not_advanced_if_same_node(s, m) == m.node # s.node \/ m.batch = s.batch

\* Mutant: another publisher is held to the batch ids of the one before it.
begin_after_commit_any_publisher(s, m) == require_batch_id_advanced_if_same_node(s, m)

\* Begin after a commit: the same publisher with the batch id advanced, or
\* another publisher.
begin_after_commit(s, m) ==
    \/ require_same_publisher(s, m) /\ require_batch_id_advanced_if_same_node(s, m)
    \/ require_different_publisher(s, m)

\* Begin after a rollback: the same publisher with the batch id kept, or
\* another publisher.
begin_after_rollback(s, m) ==
    \/ require_same_publisher(s, m) /\ require_batch_id_not_advanced_if_same_node(s, m)
    \/ require_different_publisher(s, m)

in_transaction(s, m) == require_same_publisher(s, m) /\ require_same_batch(s, m)

\* The state a receiver of a table returns, Invalid when its guard raises.
Receiver(name, s, m) ==
    LET to(state) == [state |-> state, publisher |-> m.publisher, batch |-> m.batch,
                      node |-> m.node]
        plain(state) == [state |-> state, publisher |-> "", batch |-> 0, node |-> ""]
    IN CASE name = "begin" -> to("InTransaction")
         [] name = "begin_after_commit" ->
                IF begin_after_commit(s, m) THEN to("InTransaction") ELSE Invalid
         [] name = "begin_after_rollback" ->
                IF begin_after_rollback(s, m) THEN to("InTransaction") ELSE Invalid
         [] name = "mutation" -> IF in_transaction(s, m) THEN to("InTransaction") ELSE Invalid
         [] name = "commit" -> IF in_transaction(s, m) THEN to("Committed") ELSE Invalid
         [] name = "rollback" -> IF in_transaction(s, m) THEN to("RolledBack") ELSE Invalid
         [] name = "Locked" -> plain("Locked")
         [] name = "Unlocked" -> plain("Unlocked")
         [] OTHER -> Invalid

\* The table of the transaction validator: state class, event tag, receiver.
TransactionTable ==
    [NoTransaction |-> [begin |-> "begin"],
     InTransaction |-> [mutation |-> "mutation", commit |-> "commit", rollback |-> "rollback"],
     Committed |-> [begin |-> "begin_after_commit"],
     RolledBack |-> [begin |-> "begin_after_rollback"]]

\* The table of the turnstile, and a table without states.
TurnstileTable ==
    [Unlocked |-> [coin |-> "Unlocked", push |-> "Locked"],
     Locked |-> [coin |-> "Unlocked", push |-> "Locked"]]
EmptyTable == <<>>

Locked == [state |-> "Locked", publisher |-> "", batch |-> 0, node |-> ""]
NoState == [state |-> "None", publisher |-> "", batch |-> 0, node |-> ""]

\* Mutant: an event the state has no transition for is passed over.
ReceiveLenient(table, s, m) ==
    IF s.state \notin DOMAIN table THEN Invalid
    ELSE IF m.op \notin DOMAIN table[s.state] THEN s
    ELSE Receiver(table[s.state][m.op], s, m)

\* StatefulStreamValidator: the state after one event, Invalid for
\* InvalidEventError.
Receive(table, s, m) ==
    IF s.state \notin DOMAIN table THEN Invalid
    ELSE IF m.op \notin DOMAIN table[s.state] THEN Invalid
    ELSE Receiver(table[s.state][m.op], s, m)

\* One transition of the transaction validator.
Transition(s, m) == IF s.state = "Invalid" THEN Invalid ELSE Receive(TransactionTable, s, m)

RECURSIVE TransactionState(_, _)
TransactionState(messages, n) ==
    IF n = 0 THEN NoTransaction ELSE Transition(TransactionState(messages, n - 1), messages[n])

\* validate_transaction_state accepts the messages.
validate_transaction_state(messages) ==
    TransactionState(messages, Len(messages)).state # "Invalid"

\* The validators that are built, with their table and start state.
Kinds == {"transactions", "turnstile", "empty"}
TableOf(kind) ==
    CASE kind = "transactions" -> TransactionTable
      [] kind = "turnstile" -> TurnstileTable
      [] OTHER -> EmptyTable
StartOf(kind) ==
    CASE kind = "transactions" -> NoTransaction
      [] kind = "turnstile" -> Locked
      [] OTHER -> NoState

\* The events a validator is given.
Publishers == {"pA", "pB"}
BatchIds == {1, 2}
Payloads == {"m1", "m2"}
Event(publisher, op, batch, node, payload) ==
    [publisher |-> publisher, sequence |-> 0, op |-> op, batch |-> batch, node |-> node,
     payload |-> payload]
EventsOf(kind) ==
    IF kind = "transactions"
    THEN {Event(p, op, b, n, "") : p \in Publishers, op \in {"begin", "commit", "rollback"},
                                   b \in BatchIds, n \in Nodes}
         \cup {Event(p, "mutation", b, n, x) : p \in Publishers, b \in BatchIds, n \in Nodes,
                                              x \in Payloads}
    ELSE {Event("", op, 0, "", "") : op \in {"push", "coin", "kick"}}

NoEvent == Event("", "none", 0, "", "")
NoValidator == [kind |-> "none", state |-> NoState, out |-> <<>>, failed |-> FALSE,
                rejected |-> NoEvent, ended |-> FALSE, batches |-> <<>>]

\* batched: key, the (publisher, batch identifier) of a validated pair.
key(item) == <<item[2].publisher, item[1].batch, item[1].node>>

\* itertools.groupby: the maximal runs of items with the same key.
RECURSIVE groupby(_)
groupby(items) ==
    IF items = <<>> THEN <<>>
    ELSE LET n == CHOOSE k \in 1..Len(items) :
                    /\ \A i \in 1..k : key(items[i]) = key(items[1])
                    /\ k = Len(items) \/ key(items[k + 1]) # key(items[1])
         IN <<SubSeq(items, 1, n)>> \o groupby(SubSeq(items, n + 1, Len(items)))

\* make_mutation_iterator, consumed to its end: the mutations it yields and
\* the way it ends.
RECURSIVE make_mutation_iterator(_)
make_mutation_iterator(messages) ==
    IF messages = <<>> THEN [mutations |-> <<>>, end |-> "TransactionAborted"]
    ELSE LET operation == Head(messages)
         IN CASE operation.op = "begin" -> make_mutation_iterator(Tail(messages))
              [] operation.op = "mutation" ->
                    [make_mutation_iterator(Tail(messages)) EXCEPT !.mutations = <<operation>> \o @]
              [] operation.op = "commit" -> [mutations |-> <<>>, end |-> "return"]
              [] operation.op = "rollback" -> [mutations |-> <<>>, end |-> "TransactionCancelled"]
              [] OTHER -> [mutations |-> <<>>, end |-> "ValueError"]

\* batched(messages), each mutation iterator consumed before the next pair
\* is asked for.
batched(messages) ==
    LET groups == groupby(messages)
    IN [g \in 1..Len(groups) |->
          [batch |-> <<groups[g][1][1].batch, groups[g][1][1].node>>,
           mutations |-> make_mutation_iterator([i \in 1..Len(groups[g]) |-> groups[g][i][2]])]]

\* StatefulStreamValidator(table, start).
Build(kind) ==
    /\ val.kind = "none"
    /\ val' = [NoValidator EXCEPT !.kind = kind, !.state = StartOf(kind)]

\* The validator's generator is asked for its next pair: it yields
\* (state, event) or raises InvalidEventError.
Validate(m) ==
    /\ val.kind # "none" /\ ~val.failed /\ ~val.ended
    /\ Len(val.out) < MaxEvents
    /\ LET t == Receive(TableOf(val.kind), val.state, m)
       IN IF t = Invalid
          THEN val' = [val EXCEPT !.failed = TRUE, !.rejected = m]
          ELSE val' = [val EXCEPT !.state = t, !.out = Append(@, <<t, m>>)]

\* The input ends; the validated pairs of the transaction validator go
\* through batched.
EndOfStream ==
    /\ val.kind = "transactions" /\ ~val.failed /\ ~val.ended
    /\ val' = [val EXCEPT !.ended = TRUE, !.batches = batched(val.out)]

NextStreams ==
    \/ /\ \E kind \in Kinds : Build(kind)
       /\ UNCHANGED <<avars, wvars, pvars>>
    \/ /\ \E m \in EventsOf(val.kind) : Validate(m)
       /\ UNCHANGED <<avars, wvars, pvars>>
    \/ /\ EndOfStream
       /\ UNCHANGED <<avars, wvars, pvars>>

\* --------------------------------------------------------- specification
NoSet == [exists |-> FALSE, cfg |-> NoCfg, rev |-> 0, czxid |-> 0]

\* A cluster that holds set s1 on database d1, as create_set leaves it.
FirstCfg == [databases |-> <<"d1">>, tables |-> {"t1"}]
SetsAfterCreate ==
    [s \in SetNames |-> IF s = "s1"
                        THEN [exists |-> TRUE, cfg |-> FirstCfg, rev |-> 0, czxid |-> 1]
                        ELSE NoSet]
DbAfterCreate ==
    [n \in Nodes |-> IF n = NodeOf("d1")
                     THEN configure_set(setup_database(FreshDb, 1), "s1", FirstCfg, NoCfg)
                     ELSE FreshDb]

\* The cluster with sets s on databases d, initialised by release v.
InitAt(s, d, v) ==
    /\ val = NoValidator
    /\ sets = s
    /\ db = d
    /\ lease = "none"
    /\ con = [c \in Consumers |-> FreshConsumer]
    /\ coord = FreshCoordinator
    /\ fut = [f \in Futures |-> "none"]
    /\ pgq = [open |-> 0, by |-> "", made |-> 0]
    /\ pub = FreshPublisher("p1")
    /\ stream = <<>>
    /\ root = [version |-> v, rev |-> 0]
    /\ locks = {}
    /\ ops = [o \in Callers |-> IdleOp]
    /\ last = NoOutcome
    /\ running = 1
    /\ partial = {}
    /\ nops = 0

InitWith(s, d) == InitAt(s, d, 1)

\* A new cluster.
Init == InitWith([s \in SetNames |-> NoSet], [n \in Nodes |-> FreshDb])

\* A new cluster, or one that holds a set already.
InitConc == Init \/ InitWith(SetsAfterCreate, DbAfterCreate)

\* A new cluster, initialised by the running release or by a newer one.
InitUpgrade == \E v \in Versions : InitAt([s \in SetNames |-> NoSet], [n \in Nodes |-> FreshDb], v)

GmdInputs == {<<"d1", "d1">>, <<"d1", "d1b">>, <<"d1", "d2">>}
GmdFlags == {<<TRUE, FALSE, TRUE>>, <<FALSE, FALSE, FALSE>>, <<TRUE, TRUE, TRUE>>}

\* The steps of the calls in progress.
Steps(C) ==
    \/ \E o \in C : Probe(o)
    \/ \E o \in C : Setup(o)
    \/ \E o \in C : Apply(o)
    \/ \E o \in C : StoreCommit(o)
    \/ \E o \in C : PgCommit(o)

\* One administrator, calling one function after the other.
NextWith(Forced) ==
    \/ /\ \E name \in SetNames, configuration \in Configs : CreateSet("a", name, configuration)
       /\ UNCHANGED <<wvars, pvars, svars>>
    \/ /\ \E name \in SetNames, configuration \in Configs : UpdateSet("a", name, configuration, FALSE)
       /\ UNCHANGED <<wvars, pvars, svars>>
    \/ /\ \E name \in SetNames, allow_forced_removal \in Forced : DropSet("a", name, allow_forced_removal)
       /\ UNCHANGED <<wvars, pvars, svars>>
    \/ /\ \E force \in BOOLEAN : UpgradeCluster("a", force)
       /\ UNCHANGED <<wvars, pvars, svars>>
    \/ /\ \E dsns \in GmdInputs, f \in GmdFlags : GetManagedDatabases("a", dsns, f[1], f[2], f[3])
       /\ UNCHANGED <<wvars, pvars, svars>>
    \/ /\ \E version \in Versions : Install(version)
       /\ UNCHANGED <<wvars, pvars, svars>>
    \/ /\ Steps({"a"})
       /\ UNCHANGED <<wvars, pvars, svars>>

Next == NextWith(BOOLEAN)

Spec == Init /\ [][Next]_vars

\* The same without forced removal.
NextPlain == NextWith({FALSE})

SpecUpgrade == InitUpgrade /\ [][Next]_vars

SpecPlain == Init /\ [][NextPlain]_vars

\* Two administrators at once.
ConcConfigs == [databases : {<<"d1">>}, tables : TableSets]

NextConc ==
    \/ /\ \E o \in Callers, name \in SetNames, configuration \in ConcConfigs : CreateSet(o, name, configuration)
       /\ UNCHANGED <<wvars, pvars, svars>>
    \/ /\ \E o \in Callers, name \in SetNames, configuration \in ConcConfigs : UpdateSet(o, name, configuration, FALSE)
       /\ UNCHANGED <<wvars, pvars, svars>>
    \/ /\ \E o \in Callers, name \in SetNames : DropSet(o, name, FALSE)
       /\ UNCHANGED <<wvars, pvars, svars>>
    \/ /\ \E o \in Callers : UpgradeCluster(o, FALSE)
       /\ UNCHANGED <<wvars, pvars, svars>>
    \/ /\ \E version \in Versions : Install(version)
       /\ UNCHANGED <<wvars, pvars, svars>>
    \/ /\ Steps(Callers)
       /\ UNCHANGED <<wvars, pvars, svars>>

SpecConc == InitConc /\ [][NextConc]_vars

\* The consumer threads, the Coordinator and their callers.
SpecWorker == Init /\ [][NextWorker]_vars

\* The same with the threads scheduled fairly: a thread that can take its
\* next step takes it.  Nothing is assumed of the callers, of the lease
\* service or of failures.
FairWorker ==
    /\ SpecWorker
    /\ WF_vars(CoordinatorStep /\ UNCHANGED <<avars, pvars, svars>>)
    /\ \A c \in Consumers : WF_vars(ConsumerStep(c) /\ UNCHANGED <<avars, pvars, svars>>)

\* A stream validator, the events it is given, and batched at the end.
SpecStreams == Init /\ [][NextStreams]_vars

\* One Publisher and the scopes its caller opens.
SpecPublisher == Init /\ [][NextPublisher]_vars

TypeOK ==
    /\ root.version \in Versions /\ root.rev \in 0..MaxRev
    /\ nops \in 0..MaxOps
    /\ \A o \in Callers : ops[o].pc \in {"idle", "probe", "setup", "apply", "store_commit", "pg_commit"}

\* =============================================================== claims
Quiet == \A o \in Callers : ops[o].pc = "idle"

Mutating == {"create_set", "update_set", "drop_set", "upgrade_cluster"}

\* The set's queue and its trigger on every configured table exist on every
\* database of the configuration.
Installed(name, configuration) ==
    \A i \in 1..Len(configuration.databases) :
        LET d == db[NodeOf(configuration.databases[i])]
        IN /\ name \in d.queue
           /\ \A t \in configuration.tables : d.trig[name][t] # NoVersion

\* No database has the set's queue or one of its triggers.
NothingInstalled(name) ==
    \A n \in Nodes : name \notin db[n].queue /\ \A t \in Tables : db[n].trig[name][t] = NoVersion

StoreMatchesDatabases(name) ==
    IF sets[name].exists THEN Installed(name, sets[name].cfg) ELSE NothingInstalled(name)

C3_AllReleased ==
    last.status \in {"ok", "failed"} => last.leaked = {}

StoreHasWrite(r, st, rt) ==
    CASE r.kind = "create_set" -> st[r.name].exists /\ st[r.name].cfg = r.cfg
      [] r.kind = "update_set" -> st[r.name].exists /\ st[r.name].cfg = r.cfg
                                    /\ st[r.name].rev = r.stat + 1
      [] r.kind = "drop_set" -> ~st[r.name].exists
      [] OTHER -> rt.version = r.ver

SharedNode(dsns) == \E i, j \in 1..Len(dsns) : i < j /\ NodeOf(dsns[i]) = NodeOf(dsns[j])

AllConnected(l) == l.skipped = {} /\ l.err # "connection_failed"

DirectCall(l) == l.kind = "get_managed_databases" /\ AllConnected(l)

OneEntryPerNode(l) == l.result = {<<NodeOf(d), d>> : d \in Range(l.call.dsns)}

\* C5 (as claimed): get_managed_databases returns one entry per node when no
\* two DSNs reach the same node, and raises the duplicate-node error when two
\* do (no error of the version checks or of a statement intervening).
C5_MapOrDuplicateNode ==
    DirectCall(last) =>
        /\ last.status = "ok" => ~SharedNode(last.call.dsns) /\ OneEntryPerNode(last)
        /\ (SharedNode(last.call.dsns) /\ last.call.configure
              /\ last.err \notin {"version_mismatch", "db_error"}) => last.err = "duplicate_node"

\* C5 (amended): it returns one entry per node when no two DSNs reach the
\* same node; when two do it never returns a map: it raises the
\* duplicate-node error if the node is already configured and the
\* possible-deadlock error if it has to be set up.
C5_MapOrDuplicateOrDeadlock ==
    DirectCall(last) =>
        /\ last.status = "ok" => ~SharedNode(last.call.dsns) /\ OneEntryPerNode(last)
        /\ (SharedNode(last.call.dsns) /\ last.call.configure
              /\ last.err \notin {"version_mismatch", "db_error"})
           => \A i, j \in 1..Len(last.call.dsns) :
                (i < j /\ NodeOf(last.call.dsns[i]) = NodeOf(last.call.dsns[j]))
                => last.err = IF db[NodeOf(last.call.dsns[i])].table
                              THEN "duplicate_node" ELSE "possible_deadlock"

C5_Witness ==
    DirectCall(last) /\ SharedNode(last.call.dsns) /\ last.err = "possible_deadlock"

\* get_managed_databases returns to its caller in this step.
Returns(o) ==
    /\ ops[o].phase = "gmd" /\ ops[o].pc = "pg_commit" /\ ops'[o] # ops[o]
    /\ ops'[o].pc # "idle" \/ last'.status = "ok"

FullyUnconfigured(d) == ~d.table /\ d.version = 0 /\ d.node_id = 0 /\ d.fn = 0
FullyConfigured(d) == d.table /\ d.version # 0 /\ d.node_id # 0 /\ d.fn # 0
NeverHalfConfigured == \A n \in Nodes : FullyUnconfigured(db[n]) \/ FullyConfigured(db[n])

\* C7 (as claimed): a caller that finds another caller's uncommitted setup
\* of the node fails with the possible-deadlock error instead of waiting,
\* and no node is ever half configured.
C7_SecondCallerRefused ==
    /\ \A o \in Callers : ops[o].pc = "setup" => ~SetupBlocked(o)
    /\ NeverHalfConfigured

\* C7 (amended): the second caller is refused only when both callers drew the
\* same lock_id; otherwise it takes its own advisory lock and waits for the
\* first caller's setup transaction; no node is ever half configured.
C7_SecondCallerWaitsUnlessSameToken ==
    /\ \A o \in Callers : \A p \in Callers \ {o} :
          (ops[o].pc = "setup"
             /\ \E t \in Range(ops[p].txs) :
                   t[1] = "setup" /\ NodeOf(t[2]) = NodeOf(Head(ops[o].pending)))
          => ops[o].token # ops[p].token
    /\ NeverHalfConfigured

C7_Witness ==
    \E o \in Callers : \E p \in Callers \ {o} :
        /\ ops[o].pc = "setup" /\ SetupBlocked(o)
        /\ ops[o].kind = "create_set" /\ ops[p].kind = "create_set"

IsDuplicateError(e) == e \in {"duplicate_databases", "duplicate_node"}

\* The configuration lists one DSN twice.
SameDsnTwice(configuration) ==
    Cardinality(Range(configuration.databases)) < Len(configuration.databases)

\* C8: create_set with a configuration that lists a DSN twice fails with a
\* duplicate error and leaves the store and every database as they were: the
\* call ends in the step that starts it, without a connection, a lock or a
\* write.
C8_DuplicateDsnRejected ==
    [][\A o \in Callers :
          (ops[o].pc = "idle" /\ nops' = nops + 1 /\ ops'[o] # ops[o])
          => ~(ops'[o].kind = "create_set" /\ SameDsnTwice(ops'[o].cfg))]_vars
    /\ [][(nops' = nops + 1 /\ last'.kind = "create_set" /\ SameDsnTwice(last'.cfg))
          => /\ last'.status = "failed" /\ IsDuplicateError(last'.err) /\ last'.leaked = {}
             /\ root' = root /\ sets' = sets /\ db' = db /\ locks' = locks]_vars

C8_Witness ==
    /\ last.kind = "create_set" /\ SameDsnTwice(last.cfg) /\ last.err = "duplicate_databases"
    /\ \E name \in SetNames : sets[name].exists

\* C9: a version-mismatch failure happens only when the same-version
\* requirement is on: with it off (as upgrade_cluster calls it) a configured
\* node with another stored version is accepted.
C9_MismatchOnlyWhenRequired ==
    last.err = "version_mismatch" => last.call.same

\* C10: after a successful administration call the version at <root> and the
\* version in the configuration table of every database referenced by a set
\* equal the running version.
C10_VersionsEqualRunning ==
    (last.status = "ok" /\ last.kind \in Mutating) =>
        /\ root.version = last.ver
        /\ \A name \in SetNames : sets[name].exists =>
              \A i \in 1..Len(sets[name].cfg.databases) :
                  db[NodeOf(sets[name].cfg.databases[i])].version = last.ver

\* The nodes of the three maps of update_set that stand in more than one.
InSeveralClasses(r) ==
    {n \in Nodes : \E x, y \in {"additions", "mutations", "deletions"} :
        x # y /\ (\E p \in r.maps[x] : p[1] = n) /\ (\E q \in r.maps[y] : q[1] = n)}

\* C11: update_set rejects the update when a node id appears in more than
\* one of additions, mutations and deletions, in the step that follows the
\* three calls of get_managed_databases: no database and no store node
\* changes in it, and no update_set with such a node reaches its commit.
C11_SeveralClassesRejected ==
    /\ [][\A o \in Callers :
            (ops[o].kind = "update_set" /\ ops[o].pc = "apply" /\ ops'[o] # ops[o]
               /\ InSeveralClasses(ops[o]) # {})
            => /\ last'.status = "failed" /\ last'.err = "found_duplicates"
               /\ db' = db /\ sets' = sets /\ root' = root]_vars
    /\ [](\A o \in Callers :
            (ops[o].kind = "update_set" /\ ops[o].phase = "op") => InSeveralClasses(ops[o]) = {})

C11_Witness ==
    /\ last.kind = "update_set" /\ last.err = "found_duplicates"
    /\ "d1b" \in Range(last.cfg.databases) /\ "d1" \in Range(last.cur.databases)
    /\ sets[last.name].cfg = last.cur

UpdateOrDrop == {"update_set", "drop_set"}

\* The set node is as call r fetched it.
AsFetched(r, st) == st[r.name].exists /\ st[r.name].rev = r.stat

\* The call read the node as it is in st: the same creation of the node, at
\* the same revision.
NodeAsFetched(r, st) == AsFetched(r, st) /\ st[r.name].czxid = r.czxid

\* C12: the store write of update_set and drop_set commits only if the node
\* is as the call fetched it (otherwise the call fails with a conflict and
\* changes nothing); so of two calls that fetched the same revision of the
\* node at most one commits: when one does, the other has not, and the node
\* has left the revision the other's write is conditioned on.
C12_WriteConditionedOnRevision ==
    [][\A o \in Callers :
          (ops[o].kind \in UpdateOrDrop /\ ops[o].phase = "op"
             /\ ops[o].pc = "store_commit" /\ ops'[o] # ops[o])
          => IF NodeAsFetched(ops[o], sets)
             THEN \A p \in Callers \ {o} :
                    (ops[p].kind \in UpdateOrDrop /\ ops[p].name = ops[o].name
                       /\ ops[p].stat = ops[o].stat /\ ops[p].czxid = ops[o].czxid
                       /\ sets' # sets)
                    => ~ops[p].stored /\ ~AsFetched(ops[p], sets')
             ELSE /\ last'.status = "failed" /\ last'.err = "store_conflict"
                  /\ sets' = sets /\ root' = root /\ db' = db]_vars

C12_Witness ==
    /\ last.kind \in UpdateOrDrop /\ last.err = "store_conflict"
    /\ ~AsFetched(last, sets)
    /\ \E name \in SetNames : sets[name].exists /\ sets[name].rev = 1

\* C13: a successful update_set that removes a table leaves, on every
\* database of both the old and the new configuration, no trigger of the set
\* on the removed table and, on every remaining table, the set's trigger
\* with the version of the new configuration; the revision of the set node
\* is one more than the revision fetched.
C13_UpdateRemovingTable ==
    (last.kind = "update_set" /\ last.status = "ok" /\ last.cur.tables \ last.cfg.tables # {})
    => /\ \A dsn \in Range(last.cur.databases) \cap Range(last.cfg.databases) :
            /\ \A t \in last.cur.tables \ last.cfg.tables :
                    db[NodeOf(dsn)].trig[last.name][t] = NoVersion
            /\ \A t \in last.cfg.tables :
                    db[NodeOf(dsn)].trig[last.name][t] = get_version(last.cfg)
       /\ sets[last.name].exists /\ sets[last.name].cfg = last.cfg
       /\ sets[last.name].rev = last.stat + 1

C13_Witness ==
    /\ last.kind = "update_set" /\ last.status = "ok"
    /\ last.cur.tables = {"t1", "t2"} /\ last.cfg.tables = {"t1"}
    /\ "d1" \in Range(last.cur.databases) \cap Range(last.cfg.databases)
    /\ db["n1"].trig[last.name]["t2"] = NoVersion

\* C14: at most one Consumer of a (consumer group, set) pair is past the
\* acquisition of the ownership lease at any time.
C14_OnePastAcquisition ==
    \A c, d \in Consumers : (PastAcquisition(c) /\ PastAcquisition(d)) => c = d

C16_StopInterruptsAcquire ==
    \A c \in Consumers : (con[c].pc = "acquire" /\ con[c].stop) ~> Ended(con[c])
\* C17: a future that is pending when the Coordinator is asked to stop is
\* completed, by the outcome of its command or by a cancellation.
C17_FuturesCompleted ==
    \A f \in Futures :
        (fut[f] = "pending" /\ coord.stop /\ ~Ended(coord)) ~> (fut[f] # "pending")

\* C18: when the supervised Consumer dies before it became ready, the
\* Coordinator ends as failed.
C18_DeadConsumerSurfaces ==
    (Supervised \in coord.consumers /\ con[Supervised].pc = "failed" /\ ~con[Supervised].ready)
        ~> (coord.pc = "failed")
\* C19: the messages of one Publisher are numbered 0, 1, 2, ... in the order
\* of emission and carry its publisher id, whatever the exits of its scopes.
C19_SequenceContiguous ==
    \A i \in 1..Len(stream) :
        stream[i].sequence = i - 1 /\ stream[i].publisher = pub.id

\* A batch was rolled back and messages were published after it.
C19_Witness ==
    \E i, j \in 1..Len(stream) :
        /\ i < j /\ j < Len(stream)
        /\ stream[i].op = "rollback" /\ stream[j].op = "begin"

Terminals == {"commit", "rollback"}

\* The place of the next Begin after message i, or past the end.
NextBegin(i) ==
    LET later == {j \in (i + 1)..Len(stream) : stream[j].op = "begin"}
    IN IF later = {} THEN Len(stream) + 1 ELSE CHOOSE j \in later : \A k \in later : j <= k

\* C20: every Begin of a scope that was left is followed by exactly one
\* terminal of its batch, Commit after a normal exit and Rollback after an
\* exception, which reaches the caller; both validators accept the stream.
C20_BeginThenOneTerminal ==
    /\ \A i \in 1..Len(stream) : stream[i].op = "begin" =>
          LET terms == {j \in (i + 1)..(NextBegin(i) - 1) : stream[j].op \in Terminals}
          IN IF pub.batch # 0 /\ NextBegin(i) > Len(stream)
             THEN terms = {}
             ELSE /\ Cardinality(terms) = 1
                  /\ \A j \in terms : stream[j].batch = stream[i].batch
    /\ (pub.batch = 0 /\ stream # <<>> /\ stream[Len(stream)].op \in Terminals) =>
          /\ stream[Len(stream)].op = "commit" <=> pub.exit = "normal"
          /\ stream[Len(stream)].op = "rollback" <=> (pub.exit = "exception" /\ pub.propagated)
    /\ (\A i \in 1..Len(stream) : stream[i].op # "none") =>
          /\ validate_transaction_state(stream)
          /\ validate_consumer_state(stream)

\* A scope left by an exception, then the batch published again and committed.
C20_Witness ==
    /\ pub.batch = 0 /\ pub.exit = "normal"
    /\ \E i, j \in 1..Len(stream) : i < j /\ stream[i].op = "rollback" /\ stream[j].op = "commit"
    /\ \E i \in 1..Len(stream) : stream[i].op = "mutation"
    /\ \A i \in 1..Len(stream) : stream[i].op # "none"
\* The messages of the validated pairs, and the mutations among them.
MessagesOf(pairs) == [i \in 1..Len(pairs) |-> pairs[i][2]]
IsMutation(m) == m.op = "mutation"

RECURSIVE MutationsOf(_, _)
MutationsOf(batches, n) ==
    IF n = 0 THEN <<>> ELSE MutationsOf(batches, n - 1) \o batches[n].mutations.mutations

\* The runs of the validated pairs: a pair starts a run when its
\* (publisher, batch identifier) differs from the one before it.
RunStarts(pairs) == {i \in 1..Len(pairs) : i = 1 \/ key(pairs[i]) # key(pairs[i - 1])}

\* C21: batched yields one pair per maximal run of one (publisher, batch
\* identifier); the mutations of all iterators, one after the other, are the
\* Mutation operations of the input in order; each iterator returns after a
\* Commit, raises TransactionCancelled on a Rollback, or TransactionAborted
\* at the end of a run without terminal.
C21_BatchedFidelity ==
    val.ended =>
        /\ Len(val.batches) = Cardinality(RunStarts(val.out))
        /\ MutationsOf(val.batches, Len(val.batches)) = SelectSeq(MessagesOf(val.out), IsMutation)
        /\ \A g \in 1..Len(val.batches) :
              val.batches[g].mutations.end \in {"return", "TransactionCancelled", "TransactionAborted"}
\* A step in which the transaction validator is given an event: whether it
\* yields a pair for it, and the event.
Given == val.kind = "transactions" /\ (Len(val'.out) = Len(val.out) + 1 \/ (val'.failed /\ ~val.failed))
Yields == Len(val'.out) = Len(val.out) + 1
Offered == IF Yields THEN val'.out[Len(val'.out)][2] ELSE val'.rejected

StateFor(name, m) == [state |-> name, publisher |-> m.publisher, batch |-> m.batch, node |-> m.node]
SameOwner(s, m) == m.publisher = s.publisher /\ m.batch = s.batch /\ m.node = s.node

C23_PublisherChange ==
    [][(Given /\ val.state.state = "Committed" /\ Offered.op = "begin"
          /\ Offered.batch = val.state.batch /\ Offered.node = val.state.node)
       => IF Offered.publisher # val.state.publisher
          THEN Yields /\ val'.state = StateFor("InTransaction", Offered)
          ELSE ~Yields /\ val'.failed]_vars

\* Begin(pub=A, b=1), Commit, Begin(pub=B, b=1) have been accepted.
C23_Witness ==
    /\ val.kind = "transactions" /\ ~val.failed /\ Len(val.out) = 3
    /\ val.out[1][2] = Event("pA", "begin", 1, "n1", "")
    /\ val.out[2][2] = Event("pA", "commit", 1, "n1", "")
    /\ val.out[3][2] = Event("pB", "begin", 1, "n1", "")
    /\ val.state = [state |-> "InTransaction", publisher |-> "pB", batch |-> 1, node |-> "n1"]
\* A step in which a validator of any table is given an event.
GivenAny == val.kind # "none" /\ (Len(val'.out) = Len(val.out) + 1 \/ (val'.failed /\ ~val.failed))

\* The state the turnstile of the test is in after an event.
TurnstileAfter(op) == [state |-> IF op = "coin" THEN "Unlocked" ELSE "Locked",
                       publisher |-> "", batch |-> 0, node |-> ""]

\* C24: a validator yields, for each event in order, the state its table
\* leads to from the current state and the event itself; it fails, and
\* yields nothing more, when the table has no entry for the state it is in
\* (the start state included) or the state has no transition for the event.
C24_StatefulStreamValidator ==
    /\ [][GivenAny =>
            LET table == TableOf(val.kind)
                s == val.state
                m == Offered
            IN IF s.state \in DOMAIN table /\ m.op \in DOMAIN table[s.state]
               THEN /\ val.kind = "turnstile" => Yields /\ val'.state = TurnstileAfter(m.op)
                    /\ Yields => /\ val'.out = Append(val.out, <<val'.state, m>>)
                                 /\ m \in EventsOf(val.kind)
               ELSE ~Yields /\ val'.failed /\ val'.out = val.out]_vars
    /\ [][val.failed => val'.failed /\ val'.out = val.out]_vars

\* The turnstile has yielded (Locked, push) and (Unlocked, coin) and failed
\* on kick.
C24_Witness ==
    /\ val.kind = "turnstile" /\ val.failed /\ val.rejected.op = "kick"
    /\ Len(val.out) = 2
    /\ val.out[1][1].state = "Locked" /\ val.out[1][2].op = "push"
    /\ val.out[2][1].state = "Unlocked" /\ val.out[2][2].op = "coin"

\* The caller's own setup transaction of the node its next dsn points to.
OwnSetupOpen(o) ==
    /\ ops[o].pc = "probe"
    /\ \E t \in Range(ops[o].txs) :
          t[1] = "setup" /\ NodeOf(t[2]) = NodeOf(Head(ops[o].pending))

\* No call holds two setup transactions of one node.
SetupOncePerNode ==
    \A o \in Callers : \A i, j \in 1..Len(ops[o].txs) :
        (i < j /\ ops[o].txs[i][1] = "setup" /\ ops[o].txs[j][1] = "setup")
        => NodeOf(ops[o].txs[i][2]) # NodeOf(ops[o].txs[j][2])

\* C25: inside one call of get_managed_databases, the dsn that reaches a node
\* the same call has set up but not committed is refused the advisory lock and
\* the call fails with the possible-deadlock error; setup_database does not
\* run a second time on that node.
C25_SecondDsnOfCallRefused ==
    [][/\ \A o \in Callers :
             (OwnSetupOpen(o) /\ ops'[o] # ops[o])
             => (ops'[o].pc = "idle" /\ last'.status = "failed"
                   /\ last'.err = "possible_deadlock")
       /\ SetupOncePerNode']_vars

C25_Witness ==
    /\ last.err = "possible_deadlock"
    /\ last.call.dsns = <<"d1", "d1b">>
    /\ ~db["n1"].table

\* upgrade_cluster ends at its assert on the versions.
UpgradeRefused == nops' # nops /\ last'.kind = "upgrade_cluster"

\* upgrade_cluster of caller o passes its assert on the versions.
UpgradeProceeds(o) == nops' # nops /\ ops[o].pc = "idle" /\ ops'[o].kind = "upgrade_cluster"

\* C26: upgrade_cluster is refused, with the root, the sets and every
\* database left as they were, exactly when force is off and the running
\* version is not strictly newer than the version stored at the root; with
\* force on, or with a strictly newer running version, it goes on.
C26_UpgradeRefusedUnlessNewerOrForced ==
    [][/\ UpgradeRefused =>
             /\ last'.status = "failed" /\ last'.err = "cannot_downgrade"
             /\ ~last'.force /\ running <= root.version
             /\ root' = root /\ sets' = sets /\ db' = db
       /\ \A o \in Callers : UpgradeProceeds(o) =>
             (running > root.version \/ ops'[o].force)]_vars

C26_Witness ==
    /\ last.kind = "upgrade_cluster" /\ last.err = "cannot_downgrade"
    /\ last.ver < root.version

\* The databases a finished drop_set connected to.
Accessible(outcome) == Range(outcome.cur.databases) \ outcome.skipped

\* C27: drop_set that allows forced removal skips the databases it cannot
\* connect to and, when it succeeds, has deleted the set's node and removed
\* the queue and the triggers from every database it connected to; drop_set
\* that does not allow it fails at the first database it cannot connect to,
\* with the set's node as fetched and every database as it was.
C27_ForcedDropSkipsInaccessible ==
    [][/\ (last'.kind = "drop_set" /\ last'.status = "ok") =>
             /\ ~sets'[last'.name].exists
             /\ last'.skipped # {} => last'.call.skip
             /\ \A d \in Accessible(last') :
                   /\ last'.name \notin db'[NodeOf(d)].queue
                   /\ \A t \in last'.cur.tables : db'[NodeOf(d)].trig[last'.name][t] = NoVersion
       /\ (last'.kind = "drop_set" /\ last'.err = "connection_failed") =>
             /\ ~last'.call.skip
             /\ sets' = sets /\ db' = db
             /\ sets[last'.name].exists /\ sets[last'.name].cfg = last'.cur
             /\ sets[last'.name].rev = last'.stat]_vars

C27_Witness ==
    /\ last.kind = "drop_set" /\ last.status = "ok"
    /\ last.call.skip /\ last.skipped = {"d2"}
    /\ last.name \in db["n2"].queue /\ last.name \notin db["n1"].queue

\* The batch that consumer c has reserved and not yet handed over or had taken.
Reserved(c) == {con[c].batch, con[c].slot} \ {0}

\* Consumer c registers with the queue or reserves a batch in this step.
TouchesQueue(c) ==
    \/ con[c].pc = "register" /\ con'[c].pc = "loop"
    \/ con[c].pc = "next_batch" /\ con'[c].pc = "put"

\* C28: a Consumer registers with the queue and reserves a batch only while
\* it holds the ownership lease, and no batch is reserved by two consumers of
\* the consumer group at once.
C28_QueueOnlyUnderLease ==
    [][/\ \A c \in Consumers : TouchesQueue(c) => lease = c
       /\ \A c, d \in Consumers :
             (c # d /\ ~Ended(con[c]) /\ ~Ended(con[d])) => Reserved(c) \cap Reserved(d) = {}]_vars

\* The Coordinator has ended with the consumer it started and did not
\* unsubscribe stopped, ended without an error and without the lease.
EndedInOrder ==
    /\ Ended(coord)
    /\ Supervised \in coord.consumers =>
          (con[Supervised].stop /\ con[Supervised].pc = "stopped" /\ lease # Supervised)

\* C29: once stop is requested on the Coordinator, the Coordinator ends, and
\* by then the Consumer it started and did not unsubscribe has been stopped,
\* has ended normally and has given up the ownership lease.
C29_StopEndsCoordinatorAndConsumers == coord.stop ~> EndedInOrder

\* The Coordinator takes the command at the head of its control queue.
Takes(op) ==
    /\ coord.pc = "drain" /\ coord.queue # <<>> /\ Head(coord.queue).op = op
    /\ coord'.queue = Tail(coord.queue)

\* The consumer of the name is a running thread.
Alive(consumer) == consumer.pc # "new" /\ ~Ended(consumer)

\* C30: subscribe for a name without a consumer creates and starts one with
\* the configuration given; subscribe for a name with a consumer changes
\* nothing but that consumer's configuration; a consumer is started only
\* when no consumer of the name is running; unsubscribe asks the consumer to
\* stop and takes it out of the map, and returns once the consumer has ended.
C30_OneConsumerPerName ==
    [][/\ (Takes("subscribe") /\ Supervised \notin coord.consumers) =>
             /\ coord'.consumers = {Supervised}
             /\ con'[Supervised].pc = "acquire" /\ ~con'[Supervised].stop
             /\ con'[Supervised].configuration = Head(coord.queue).configuration
       /\ (Takes("subscribe") /\ Supervised \in coord.consumers) =>
             /\ coord'.consumers = coord.consumers
             /\ con' = [con EXCEPT ![Supervised].configuration = Head(coord.queue).configuration]
       /\ (con'[Supervised].pc = "acquire" /\ con[Supervised].pc # "acquire") =>
             ~Alive(con[Supervised])
       /\ (Takes("unsubscribe") /\ Supervised \in coord.consumers) =>
             /\ coord'.consumers = {} /\ con'[Supervised].stop
       /\ (coord.pc = "join" /\ coord'.pc # "join") =>
             (Ended(con'[Supervised]) /\ Supervised \notin coord'.consumers)]_vars

C30_Witness ==
    /\ Supervised \in coord.consumers /\ Alive(con[Supervised])
    /\ con[Supervised].ready /\ con[Supervised].configuration = "v2"
    /\ fut[1] = "done" /\ fut[2] = "done" /\ coord.queue = <<>>

\* The nodes on which this step commits another run of setup_database: the
\* databases of an upgrade_cluster whose transactions all commit.
SetupAgain ==
    {n \in Nodes : \E o \in Callers :
        /\ ops[o].kind = "upgrade_cluster" /\ ops[o].pc = "pg_commit"
        /\ last'.kind = "upgrade_cluster" /\ last'.status = "ok"
        /\ \E t \in Range(ops[o].txs) : NodeOf(t[2]) = n}

\* C31: setup_database run again on a database it has run on, by the same
\* or by another release, leaves the rows of the configuration table and the
\* node_id as they were, returns the node_id of the first run and stores the
\* version of the release that runs it; a further run by the same release
\* changes nothing at all.
C31_SetupIdempotent ==
    [][/\ db' # db =>
             \A n \in Nodes : \A v, w \in Versions :
                LET once == setup_database(db'[n], v)
                    again == setup_database(once, w)
                IN /\ ConfigurationRows(again) = ConfigurationRows(once)
                   /\ again.node_id = once.node_id
                   /\ get_or_set_node_identifier(once) = once.node_id
                   /\ again.version = w
                   /\ setup_database(again, w) = again
       /\ \A n \in SetupAgain :
             /\ ConfigurationRows(db'[n]) = ConfigurationRows(db[n])
             /\ db'[n].node_id = db[n].node_id
             /\ db'[n].version = last'.ver]_vars

C31_Witness ==
    /\ last.kind = "upgrade_cluster" /\ last.status = "ok"
    /\ \E s \in SetNames : sets[s].exists /\ "d1" \in Range(sets[s].cfg.databases)
    /\ FullyConfigured(db["n1"]) /\ db["n1"].version = last.ver

\* Consumer c's batches.put returns in this step.
Puts(c) == con[c].pc = "put" /\ con'[c].pc # "put"

\* C32: the hand-off queue of a Consumer is empty at every put, so the put
\* does not block and the queue holds one batch at most; a batch enters the
\* queue only by its Consumer's put and leaves it only by being taken.
C32_PutFindsQueueEmpty ==
    [][\A c \in Consumers :
          /\ Puts(c) => (con[c].slot = 0 /\ con'[c].slot = con[c].batch)
          /\ (con[c].slot = 0 /\ con'[c].slot # 0) => Puts(c)
          /\ con[c].slot # 0 => con'[c].slot \in {0, con[c].slot}]_vars

C32_Witness ==
    /\ con[Supervised].pc = "loop" /\ con[Supervised].slot # 0
    /\ con[Supervised].slot = pgq.open /\ pgq.by = Supervised
    /\ coord.pc = "supervise"

====
